---------------------------- MODULE Spec2Model ----------------------------
(***************************************************************************)
(* Task analyzer: the priority scoring engine and the dependency cycle     *)
(* detector of backend/tasks/scoring.py (class TaskScorer).                *)
(*                                                                         *)
(* A task is a Python dict, modelled as a function from field names to     *)
(* values; an absent key is a name outside the function's DOMAIN.  A batch *)
(* is a sequence of tasks; Python position i is index i+1 here.            *)
(***************************************************************************)
EXTENDS Integers, Sequences, FiniteSets, TLC

VARIABLES
    tasks,      \* the caller's list of task dicts (the very objects the scorer is handed)
    supplied,   \* the batch as the caller built it, before any call
    strategy,   \* TaskScorer.strategy
    today,      \* date.today(), as a day number
    arg,        \* the scalar argument of the operation (hours, task id, count, ...)
    op,         \* the operation that has run ("init" before any)
    ret         \* its outcome: [raised |-> BOOLEAN, value |-> what it returned]

vars == <<tasks, supplied, strategy, today, arg, op, ret>>

-----------------------------------------------------------------------------
(* Bounds of the model *)

MaxTasks == 3       \* longest batch of the graph and batch specifications
MaxId == 2          \* explicit ids and dependency entries are drawn from 0..MaxId
MaxDeps == 2        \* longest dependency list of the graph specification
MaxBatch == 3       \* longest batch of the batch specification
MaxCount == 3       \* largest count asked of get_top_suggestions
MaxDependents == 5  \* most tasks that depend on the scored task
MaxHours == 480     \* largest estimated_hours of the effort specification, in tenths
MaxDays == 200      \* latest due date of the dense range of the urgency specification
MaxOverdue == 5     \* most days a due date of the urgency specification is overdue
MaxBlocked == 4     \* most tasks that depend on one task of the impact specification
MaxRequest == 2     \* longest task list of a request of the view specification
MaxTicks == 2       \* most date changes during one call of the clock specification
MaxDue == 6         \* latest due date of the clock specification

\* the hours, in tenths, from which 30 - 5 * log2(hours - 15) is at most 10
FloorHours == 310

\* the days until due from which 20 - log2(days - 29) is at most 10
FloorDays == 1053

-----------------------------------------------------------------------------
(* Python dict and list helpers *)

Has(task, key) == key \in DOMAIN task

\* task.get('dependencies', [])
Dependencies(task) == IF Has(task, "dependencies") THEN task["dependencies"] ELSE <<>>

Range(seq) == {seq[k] : k \in DOMAIN seq}

\* list.index(x): the first position holding x (the caller has checked x is there)
IndexOf(seq, x) == CHOOSE k \in DOMAIN seq : seq[k] = x /\ \A j \in 1..(k - 1) : seq[j] # x

-----------------------------------------------------------------------------
(* detect_circular_dependencies *)

\* task.get('id') or i : a missing id and the falsy id 0 both give the position
NodeKey(task, i) == IF Has(task, "id") /\ task["id"] # 0 THEN task["id"] ELSE i

\* the keys of task_dict, in insertion order (a repeated key keeps its first place)
RECURSIVE TaskKeysFrom(_, _)
TaskKeysFrom(ts, k) ==
    IF k > Len(ts) THEN <<>>
    ELSE LET rest == TaskKeysFrom(ts, k + 1)
             key == NodeKey(ts[k], k - 1)
         IN  <<key>> \o SelectSeq(rest, LAMBDA x : x # key)

TaskKeys(ts) == TaskKeysFrom(ts, 1)

\* task_dict.get(task_id): the last task stored under the key; <<>> stands for None
\* (and for an empty dict, which "if task:" treats alike)
TaskDictGet(ts, task_id) ==
    LET hits == {k \in DOMAIN ts : NodeKey(ts[k], k - 1) = task_id}
    IN  IF hits = {} THEN <<>>
        ELSE ts[CHOOSE k \in hits : \A j \in hits : j <= k]

\* The closure state of has_cycle: circular (a list), visited, rec_stack, and
\* whether path.index raised ValueError.
DfsInit == [circular |-> <<>>, visited |-> {}, rec_stack |-> {}, raised |-> FALSE]

RECURSIVE HasCycle(_, _, _, _)
RECURSIVE VisitDeps(_, _, _, _, _, _)

\* has_cycle(task_id, path) -> [found, st]
HasCycle(ts, task_id, path, st) ==
    IF task_id \in st.rec_stack
    THEN IF task_id \in Range(path)
         THEN [found |-> TRUE,
               st |-> [st EXCEPT !.circular =
                          @ \o SubSeq(path, IndexOf(path, task_id), Len(path))]]
         ELSE [found |-> FALSE, st |-> [st EXCEPT !.raised = TRUE]]
    ELSE IF task_id \in st.visited
    THEN [found |-> FALSE, st |-> st]
    ELSE LET st1 == [st EXCEPT !.visited = @ \cup {task_id},
                               !.rec_stack = @ \cup {task_id}]
             task == TaskDictGet(ts, task_id)
             r == IF DOMAIN task # {}
                  THEN VisitDeps(ts, Dependencies(task), 1, task_id, path, st1)
                  ELSE [found |-> FALSE, st |-> st1]
         IN  IF r.found \/ r.st.raised
             THEN r
             ELSE [found |-> FALSE,
                   st |-> [r.st EXCEPT !.rec_stack = @ \ {task_id}]]

\* the loop "for dep_id in dependencies" of has_cycle, from entry k on
VisitDeps(ts, deps, k, task_id, path, st) ==
    IF k > Len(deps) THEN [found |-> FALSE, st |-> st]
    ELSE LET r == HasCycle(ts, deps[k], Append(path, task_id), st)
         IN  IF r.found \/ r.st.raised THEN r
             ELSE VisitDeps(ts, deps, k + 1, task_id, path, r.st)

\* the loop "for task_id in task_dict.keys()" from key k on
RECURSIVE DfsRoots(_, _, _, _)
DfsRoots(ts, keys, k, st) ==
    IF k > Len(keys) \/ st.raised THEN st
    ELSE IF keys[k] \in st.visited THEN DfsRoots(ts, keys, k + 1, st)
    ELSE DfsRoots(ts, keys, k + 1, HasCycle(ts, keys[k], <<>>, st).st)

\* detect_circular_dependencies(tasks): list(set(circular)), or ValueError
DetectCircularDependencies(ts) ==
    LET st == DfsRoots(ts, TaskKeys(ts), 1, DfsInit)
    IN  [raised |-> st.raised,
         value |-> IF st.raised THEN {} ELSE Range(st.circular)]

-----------------------------------------------------------------------------
(* The graph specification: a batch, then one call of the cycle detector *)

Ids == 0..MaxId

\* dependency lists: no entry twice, at most MaxDeps entries
DepLists ==
    UNION {{d \in [1..n -> Ids] : \A a, b \in 1..n : a # b => d[a] # d[b]} : n \in 0..MaxDeps}

GraphTasks ==
    {[dependencies |-> d] : d \in DepLists}
    \cup {[id |-> i, dependencies |-> d] : i \in Ids, d \in DepLists}

\* the identifier of the task at index k: its id, or its position
TaskId(ts, k) == IF Has(ts[k], "id") THEN ts[k]["id"] ELSE k - 1

UniqueIds(ts) == \A a, b \in DOMAIN ts : a # b => TaskId(ts, a) # TaskId(ts, b)

\* the batches of n tasks with pairwise distinct identifiers
GraphBatches(n) == {b \in [1..n -> GraphTasks] : UniqueIds(b)}

InitGraph ==
    /\ \E n \in 0..MaxTasks : tasks \in GraphBatches(n)
    /\ supplied = tasks
    /\ strategy = "smart_balance"
    /\ today = 0
    /\ arg = 0
    /\ op = "init"
    /\ ret = [raised |-> FALSE, value |-> {}]

DetectCycles ==
    /\ op = "init"
    /\ op' = "detect_circular_dependencies"
    /\ ret' = DetectCircularDependencies(tasks)
    /\ UNCHANGED <<tasks, supplied, strategy, today, arg>>

NextGraph == DetectCycles

SpecGraph == InitGraph /\ [][NextGraph]_vars

-----------------------------------------------------------------------------
(* The depends-on relation of a batch, as the data model defines it: a node *)
(* per task identifier, an edge from a task to each entry of its list.      *)

TaskIds(ts) == {TaskId(ts, k) : k \in DOMAIN ts}

\* the identifiers reachable from the set S in up to c further steps
RECURSIVE ReachFrom(_, _, _)
ReachFrom(ts, S, c) ==
    IF c = 0 THEN S
    ELSE ReachFrom(ts,
                   S \cup UNION {Range(Dependencies(ts[k])) :
                                    k \in {j \in DOMAIN ts : TaskId(ts, j) \in S}},
                   c - 1)

\* the task identifiers that lie on a cycle of the relation
OnCycle(ts) ==
    {TaskId(ts, k) : k \in {j \in DOMAIN ts :
        TaskId(ts, j) \in ReachFrom(ts, Range(Dependencies(ts[j])), Len(ts))}}

Detected == op = "detect_circular_dependencies"

\* the batch with entry j of task k's dependency list removed
WithoutDep(ts, k, j) ==
    [ts EXCEPT ![k] = [@ EXCEPT !["dependencies"] =
        SubSeq(@, 1, j - 1) \o SubSeq(@, j + 1, Len(@))]]

AllExplicit(ts) == \A k \in DOMAIN ts : Has(ts[k], "id")

\* the batch with the identifier 0 renamed to MaxId + 1, in ids and in lists
RenameZero(ts) ==
    LET new(x) == IF x = 0 THEN MaxId + 1 ELSE x
    IN  [k \in DOMAIN ts |->
            [f \in DOMAIN ts[k] |->
                IF f = "id" THEN new(ts[k][f])
                ELSE IF f = "dependencies"
                     THEN [j \in DOMAIN ts[k][f] |-> new(ts[k][f][j])]
                     ELSE ts[k][f]]]

-----------------------------------------------------------------------------
(* Claims about the cycle detector (specification SpecGraph) *)

\* C1: for a batch with unique identifiers, every task identifier that lies on
\* a cycle of the depends-on relation is in the returned set (stated for the
\* calls that return: the calls that raise are the subject of C2).
C1_AllCycleIdsReturned ==
    (Detected /\ UniqueIds(supplied) /\ ~ret.raised) => OnCycle(supplied) \subseteq ret.value

\* C2: the cycle detector has no error outcome: every call returns a set.
C2_NeverRaises == Detected => ~ret.raised

\* C3: every identifier the cycle detector returns lies on a cycle of the
\* depends-on relation of the batch (so an acyclic batch gives the empty set).
C3_OnlyCycleIdsReturned ==
    (Detected /\ ~ret.raised) => ret.value \subseteq OnCycle(supplied)

\* C6: the graph node of a task is its explicit id whenever the id field is
\* present (0 included) and its zero-based position only when the field is
\* absent; so in a batch of explicit ids the detector treats id 0 like any other
\* id: renaming 0 to an unused id throughout changes the outcome by that
\* renaming only.
C6_NodeIsExplicitId ==
    Detected =>
        /\ \A k \in DOMAIN supplied : NodeKey(supplied[k], k - 1) = TaskId(supplied, k)
        /\ AllExplicit(supplied) =>
              LET renamed == DetectCircularDependencies(RenameZero(supplied))
              IN  /\ ret.raised = renamed.raised
                  /\ ret.value = {IF x = MaxId + 1 THEN 0 ELSE x : x \in renamed.value}

\* C7: a dependency entry that matches no task of the batch is a dead end: the
\* call has the outcome (returning or raising) of the same batch without that
\* entry, the entry is not in the returned set, and the same real tasks are
\* reported as cyclic as without it.
C7_UnknownDepIsDeadEnd ==
    Detected =>
        \A k \in DOMAIN supplied : \A j \in DOMAIN Dependencies(supplied[k]) :
            LET dep == Dependencies(supplied[k])[j]
                without == DetectCircularDependencies(WithoutDep(supplied, k, j))
            IN  dep \notin TaskIds(supplied) =>
                    /\ ret.raised = without.raised
                    /\ dep \notin ret.value
                    /\ ret.value \cap TaskIds(supplied) = without.value \cap TaskIds(supplied)

-----------------------------------------------------------------------------
(* Numbers.  A score is an integer number of hundredths (95 is 9500), hours *)
(* are tenths of an hour (0.5 h is 5), days are whole days.  A field value  *)
(* is [kind, v]: kind "num" is an int or float of value v; kind "date" is a *)
(* date, or a string strptime parses with '%Y-%m-%d', of day number v; kind *)
(* "str" is any other string; kind "none" is None or another type.          *)

Scale == 10 * 10            \* hundredths per score point
FracOne == 2 ^ 14           \* 1.0 in the fixed-point mantissa of Log2
LogOne == 2 ^ 13            \* 1.0 in the result of Log2

Num(v) == [kind |-> "num", v |-> v]
Date(v) == [kind |-> "date", v |-> v]
BadStr == [kind |-> "str", v |-> 0]
None == [kind |-> "none", v |-> 0]

\* task.get(key, default)
Get(task, key, default) == IF Has(task, key) THEN task[key] ELSE default

Min(a, b) == IF a <= b THEN a ELSE b
Max(a, b) == IF a >= b THEN a ELSE b
Abs(a) == IF a < 0 THEN 0 - a ELSE a

\* the largest e with den * 2^e <= num (num >= den > 0)
RECURSIVE FloorLog2(_, _)
FloorLog2(num, den) == IF 2 * den > num THEN 0 ELSE 1 + FloorLog2(num, 2 * den)

\* the binary digits of log2(m / FracOne) after the point, for FracOne <= m < 2 * FracOne:
\* square, and emit 1 when the square reaches 2
RECURSIVE Log2Frac(_, _, _)
Log2Frac(m, acc, unit) ==
    IF unit = 1 THEN acc
    ELSE LET sq == (m * m + FracOne \div 2) \div FracOne
         IN  IF sq >= 2 * FracOne
             THEN Log2Frac(sq \div 2, acc + unit \div 2, unit \div 2)
             ELSE Log2Frac(sq, acc, unit \div 2)

\* math.log(num / den, 2) for num >= den > 0, in units of 1 / LogOne (exact on
\* powers of two, otherwise within 2 / LogOne of the real value)
Log2(num, den) ==
    LET e == FloorLog2(num, den)
    IN  e * LogOne + Log2Frac((2 * num * FracOne + den * (2 ^ e)) \div (2 * den * (2 ^ e)), 0, LogOne)

\* c * log2(num / den) in hundredths, to the nearest
Log2Score(c, num, den) == (c * Scale * Log2(num, den) + LogOne \div 2) \div LogOne

\* the integer nearest to sqrt(n)
\* the largest r in lo..hi with r * r <= n, by bisection
RECURSIVE FloorSqrt(_, _, _)
FloorSqrt(n, lo, hi) ==
    IF lo = hi THEN lo
    ELSE LET mid == (lo + hi + 1) \div 2
         IN  IF mid * mid <= n THEN FloorSqrt(n, mid, hi) ELSE FloorSqrt(n, lo, mid - 1)

RoundSqrt(n) == (FloorSqrt(4 * n, 0, 2 ^ 15) + 1) \div 2

\* round(x, 2) of a value in units of 1 / Scale^2: to the nearest hundredth, ties to even
Round2(x) ==
    LET q == x \div Scale
        r == x % Scale
    IN  IF 2 * r > Scale THEN q + 1
        ELSE IF 2 * r < Scale THEN q
        ELSE q + (q % 2)

-----------------------------------------------------------------------------
(* The component scores *)

\* calculate_urgency_score with the 14-30 day segment starting 5 points higher
CalculateUrgencyScoreShifted(due_date, now) ==
    IF due_date.kind # "date" THEN 50 * Scale
    ELSE LET days_until_due == due_date.v - now
         IN  IF days_until_due < 0
             THEN Min(100 * Scale, 100 * Scale + Abs(days_until_due) * 2 * Scale)
             ELSE IF days_until_due = 0 THEN 95 * Scale
             ELSE IF days_until_due <= 3 THEN 90 * Scale - days_until_due * 3 * Scale
             ELSE IF days_until_due <= 7 THEN 80 * Scale - (days_until_due - 3) * 5 * Scale
             ELSE IF days_until_due <= 14 THEN 60 * Scale - (days_until_due - 7) * 3 * Scale
             ELSE IF days_until_due <= 30
                  THEN 45 * Scale - ((days_until_due - 14) * 125 * Scale) \div 100
             ELSE Max(10 * Scale, 20 * Scale - Log2Score(1, days_until_due - 29, 1))

\* calculate_urgency_score(due_date), with date.today() = now
CalculateUrgencyScore(due_date, now) ==
    IF due_date.kind # "date" THEN 50 * Scale
    ELSE LET days_until_due == due_date.v - now
         IN  IF days_until_due < 0
             THEN Min(100 * Scale, 100 * Scale + Abs(days_until_due) * 2 * Scale)
             ELSE IF days_until_due = 0 THEN 95 * Scale
             ELSE IF days_until_due <= 3 THEN 90 * Scale - days_until_due * 3 * Scale
             ELSE IF days_until_due <= 7 THEN 80 * Scale - (days_until_due - 3) * 5 * Scale
             ELSE IF days_until_due <= 14 THEN 60 * Scale - (days_until_due - 7) * 3 * Scale
             ELSE IF days_until_due <= 30
                  THEN 40 * Scale - ((days_until_due - 14) * 125 * Scale) \div 100
             ELSE Max(10 * Scale, 20 * Scale - Log2Score(1, days_until_due - 29, 1))

\* calculate_importance_score(importance): (importance ** 1.5) / (10 ** 1.5) * 100,
\* which is sqrt(10 * importance^3), to the nearest hundredth
CalculateImportanceScore(importance) ==
    IF importance.kind # "num" \/ importance.v < 1 \/ importance.v > 10
    THEN 50 * Scale
    ELSE RoundSqrt(10 * importance.v * importance.v * importance.v * Scale * Scale)

\* calculate_effort_score(estimated_hours); h is in tenths of an hour
CalculateEffortScoreShifted(estimated_hours) ==
    LET h == estimated_hours.v
    IN  IF estimated_hours.kind # "num" \/ h <= 0 THEN 50 * Scale
        ELSE IF h < 10 THEN 100 * Scale - (h * 5 * Scale) \div 10
        ELSE IF h <= 30 THEN 95 * Scale - ((h - 10) * 75 * Scale) \div 100
        ELSE IF h <= 80 THEN 80 * Scale - ((h - 30) * 6 * Scale) \div 10
        ELSE IF h <= 160 THEN 55 * Scale - ((h - 80) * 25 * Scale) \div 100
        ELSE Max(10 * Scale, 30 * Scale - Log2Score(5, h - 150, 10))

CalculateEffortScore(estimated_hours) ==
    LET h == estimated_hours.v
    IN  IF estimated_hours.kind # "num" \/ h <= 0 THEN 50 * Scale
        ELSE IF h < 10 THEN 100 * Scale - (h * 5 * Scale) \div 10
        ELSE IF h <= 30 THEN 95 * Scale - ((h - 10) * 75 * Scale) \div 100
        ELSE IF h <= 80 THEN 80 * Scale - ((h - 30) * 6 * Scale) \div 10
        ELSE IF h <= 160 THEN 50 * Scale - ((h - 80) * 25 * Scale) \div 100
        ELSE Max(10 * Scale, 30 * Scale - Log2Score(5, h - 150, 10))

\* task.get('id') of a task without the key: None, which no dependency list of
\* the model holds (ids and dependency entries are naturals)
NoneId == -1

\* a "dependencies" value that is no list (None, a number, a string): in place
\* of the list the task holds this one, whose entry no id and no list equals
NotAList == <<NoneId - 1>>

\* "if task_id in dependencies" raises TypeError when a task of all_tasks
\* holds such a value
DependencyScoreRaises(all_tasks) ==
    \E k \in DOMAIN all_tasks : Dependencies(all_tasks[k]) = NotAList

\* blocking_count: the tasks of all_tasks whose dependency list holds task_id
BlockingCount(task_id, all_tasks) ==
    Cardinality({k \in DOMAIN all_tasks : task_id \in Range(Dependencies(all_tasks[k]))})

DependencyScoreUncapped(task_id, all_tasks) ==
    LET blocking_count == BlockingCount(task_id, all_tasks)
    IN  IF blocking_count = 0 THEN 30 * Scale
        ELSE IF blocking_count = 1 THEN 60 * Scale
        ELSE IF blocking_count = 2 THEN 80 * Scale
        ELSE 80 * Scale + (blocking_count - 2) * 10 * Scale

\* calculate_dependency_score(task_id, all_tasks)
CalculateDependencyScore(task_id, all_tasks) ==
    LET blocking_count == BlockingCount(task_id, all_tasks)
    IN  IF blocking_count = 0 THEN 30 * Scale
        ELSE IF blocking_count = 1 THEN 60 * Scale
        ELSE IF blocking_count = 2 THEN 80 * Scale
        ELSE Min(100 * Scale, 80 * Scale + (blocking_count - 2) * 10 * Scale)

-----------------------------------------------------------------------------
(* The combined score *)

Strategies == {"smart_balance", "fastest_wins", "high_impact", "deadline_driven"}

SmartBalance == [urgency |-> 35, importance |-> 30, effort |-> 20, dependencies |-> 15]

\* _get_weights with the weights of smart_balance under every name
GetWeightsBalanced(strat) == SmartBalance

\* _get_weights(strategy, None), in hundredths; DEFAULT_WEIGHTS for an unknown name
GetWeights(strat) ==
    CASE strat = "smart_balance" -> SmartBalance
      [] strat = "fastest_wins" ->
            [urgency |-> 15, importance |-> 15, effort |-> 60, dependencies |-> 10]
      [] strat = "high_impact" ->
            [urgency |-> 15, importance |-> 65, effort |-> 5, dependencies |-> 15]
      [] strat = "deadline_driven" ->
            [urgency |-> 70, importance |-> 15, effort |-> 5, dependencies |-> 10]
      [] OTHER -> SmartBalance

Phrase(text) == [text |-> text, n |-> 0]
PhraseN(text, n) == [text |-> text, n |-> n]

\* _generate_explanation with "High effort task" under every strategy
GenerateExplanationAnyStrategy(task, urgency, importance, effort, dependencies, strat, now) ==
    LET due_date == Get(task, "due_date", None)
        days == due_date.v - now
        r1 == IF urgency > 80 * Scale
              THEN IF due_date.kind # "date" THEN <<Phrase("High urgency")>>
                   ELSE IF days < 0 THEN <<PhraseN("OVERDUE by N days", Abs(days))>>
                   ELSE IF days = 0 THEN <<Phrase("Due TODAY")>>
                   ELSE <<PhraseN("Due very soon (N days)", days)>>
              ELSE IF urgency > 60 * Scale THEN <<Phrase("Approaching deadline")>>
              ELSE <<>>
        r2 == IF importance > 75 * Scale THEN <<Phrase("High importance rating")>> ELSE <<>>
        r3 == IF effort > 80 * Scale THEN <<Phrase("Quick win (low effort)")>>
              ELSE IF effort < 30 * Scale
                   THEN <<Phrase("High effort task")>>
              ELSE <<>>
        r4 == IF dependencies > 60 * Scale THEN <<Phrase("Blocks other tasks")>> ELSE <<>>
        reasons == r1 \o r2 \o r3 \o r4
    IN  IF reasons = <<>> THEN <<Phrase("Balanced priority")>> ELSE reasons

\* _generate_explanation: the list "reasons" (the result joins it with " * ");
\* now is date.today() as read here
GenerateExplanation(task, urgency, importance, effort, dependencies, strat, now) ==
    LET due_date == Get(task, "due_date", None)
        days == due_date.v - now
        r1 == IF urgency > 80 * Scale
              THEN IF due_date.kind # "date" THEN <<Phrase("High urgency")>>
                   ELSE IF days < 0 THEN <<PhraseN("OVERDUE by N days", Abs(days))>>
                   ELSE IF days = 0 THEN <<Phrase("Due TODAY")>>
                   ELSE <<PhraseN("Due very soon (N days)", days)>>
              ELSE IF urgency > 60 * Scale THEN <<Phrase("Approaching deadline")>>
              ELSE <<>>
        r2 == IF importance > 75 * Scale THEN <<Phrase("High importance rating")>> ELSE <<>>
        r3 == IF effort > 80 * Scale THEN <<Phrase("Quick win (low effort)")>>
              ELSE IF effort < 30 * Scale /\ strat # "fastest_wins"
                   THEN <<Phrase("High effort task")>>
              ELSE <<>>
        r4 == IF dependencies > 60 * Scale THEN <<Phrase("Blocks other tasks")>> ELSE <<>>
        reasons == r1 \o r2 \o r3 \o r4
    IN  IF reasons = <<>> THEN <<Phrase("Balanced priority")>> ELSE reasons

\* the weighted total, the rounding and the record calculate_score returns
ScoreData(task, urgency, importance, effort, dependencies, strat, now) ==
    [score |-> Round2(urgency * GetWeights(strat).urgency
                      + importance * GetWeights(strat).importance
                      + effort * GetWeights(strat).effort
                      + dependencies * GetWeights(strat).dependencies),
     components |-> [urgency |-> urgency, importance |-> importance,
                     effort |-> effort, dependencies |-> dependencies],
     explanation |-> GenerateExplanation(task, urgency, importance, effort,
                                         dependencies, strat, now)]

\* calculate_score(task, all_tasks) of a scorer with the strategy strat
CalculateScore(task, all_tasks, strat, now) ==
    ScoreData(task,
              CalculateUrgencyScore(Get(task, "due_date", None), now),
              CalculateImportanceScore(Get(task, "importance", Num(5))),
              CalculateEffortScore(Get(task, "estimated_hours", Num(10))),
              CalculateDependencyScore(Get(task, "id", NoneId), all_tasks),
              strat, now)

\* calculate_score from the importance score on (lines 213-239), the urgency
\* score having been computed before; now is date.today() as it is from then on
CalculateScoreFrom(task, all_tasks, strat, urgency, now) ==
    ScoreData(task,
              urgency,
              CalculateImportanceScore(Get(task, "importance", Num(5))),
              CalculateEffortScore(Get(task, "estimated_hours", Num(10))),
              CalculateDependencyScore(Get(task, "id", NoneId), all_tasks),
              strat, now)

\* the call calculate_score(task, all_tasks): [raised, value]
CalculateScoreCall(task, all_tasks, strat, now) ==
    IF DependencyScoreRaises(all_tasks)
    THEN [raised |-> TRUE, value |-> <<>>]
    ELSE [raised |-> FALSE, value |-> CalculateScore(task, all_tasks, strat, now)]

-----------------------------------------------------------------------------
(* Batch scoring *)

\* "for i, task in enumerate(tasks): if 'id' not in task: task['id'] = i",
\* which writes into the caller's dicts
AssignIds(ts) ==
    [k \in DOMAIN ts |-> IF Has(ts[k], "id") THEN ts[k] ELSE ("id" :> (k - 1)) @@ ts[k]]

\* one record of scored_tasks: {**task, priority_score, score_components,
\* explanation} and the warning of a task whose id is in circular
ScoredTask(task, score_data, circular) ==
    (IF Get(task, "id", NoneId) \in circular
     THEN "warning" :> "Circular dependency detected"
     ELSE <<>>)
    @@ ("priority_score" :> score_data.score)
    @@ ("score_components" :> score_data.components)
    @@ ("explanation" :> score_data.explanation)
    @@ task

\* a list sorted by priority_score, highest first, with x put behind its equals
InsertByScore(sorted, x) ==
    LET before == {k \in DOMAIN sorted : sorted[k]["priority_score"] >= x["priority_score"]}
        n == Cardinality(before)
    IN  SubSeq(sorted, 1, n) \o <<x>> \o SubSeq(sorted, n + 1, Len(sorted))

RECURSIVE SortFrom(_, _, _)
SortFrom(seq, k, sorted) ==
    IF k > Len(seq) THEN sorted ELSE SortFrom(seq, k + 1, InsertByScore(sorted, seq[k]))

Reverse(seq) == [k \in DOMAIN seq |-> seq[Len(seq) + 1 - k]]

\* an ascending stable sort, then reversed
SortByScoreReversed(seq) ==
    LET neg(x) == [x EXCEPT !["priority_score"] = 0 - @]
        asc == SortFrom([k \in DOMAIN seq |-> neg(seq[k])], 1, <<>>)
    IN  Reverse([k \in DOMAIN seq |-> neg(asc[k])])

\* scored_tasks.sort(key=lambda x: x['priority_score'], reverse=True): list.sort
\* is stable, and reverse=True keeps the order of equal elements
SortByScore(seq) == SortFrom(seq, 1, <<>>)

\* score_tasks from the cycle check on; withIds is the batch after the id loop.
\* A "dependencies" value that is no list raises in the cycle check ("for
\* dep_id in dependencies") or, at the latest, in calculate_score
ScoreAndSort(withIds, circular, strat, now) ==
    IF circular.raised \/ DependencyScoreRaises(withIds)
    THEN [raised |-> TRUE, value |-> <<>>, tasks |-> withIds]
    ELSE [raised |-> FALSE,
          value |-> SortByScore(
              [k \in DOMAIN withIds |->
                  ScoredTask(withIds[k],
                             CalculateScore(withIds[k], withIds, strat, now),
                             circular.value)]),
          tasks |-> withIds]

ScoreWithIds(withIds, strat, now) ==
    ScoreAndSort(withIds, DetectCircularDependencies(withIds), strat, now)

\* score_tasks(tasks): [raised, value, tasks], tasks being the caller's list afterwards
ScoreTasksCall(ts, strat, now) == ScoreWithIds(AssignIds(ts), strat, now)

\* scored_tasks[:count]
Prefix(seq, count) ==
    IF count >= 0 THEN SubSeq(seq, 1, Min(count, Len(seq)))
    ELSE SubSeq(seq, 1, Max(Len(seq) + count, 0))

\* "for i, task in enumerate(top_tasks, 1)": rank and suggestion_reason, which
\* is f"Rank #{i}: {task['explanation']}"
WithRanks(top_tasks) ==
    [i \in DOMAIN top_tasks |->
        ("rank" :> i)
        @@ ("suggestion_reason" :> [rank |-> i, explanation |-> top_tasks[i]["explanation"]])
        @@ top_tasks[i]]

TopOf(scored, count) ==
    IF scored.raised THEN scored
    ELSE [scored EXCEPT !.value = WithRanks(Prefix(@, count))]

\* get_top_suggestions(tasks, count)
GetTopSuggestionsCall(ts, count, strat, now) == TopOf(ScoreTasksCall(ts, strat, now), count)

-----------------------------------------------------------------------------
(* The views analyze_tasks and suggest_tasks *)

\* TaskInputSerializer accepts the task: title, due_date, estimated_hours of
\* at least 0.1 and importance in 1..10 are required
TaskValid(task) ==
    /\ Has(task, "title")
    /\ Has(task, "due_date") /\ task["due_date"].kind = "date"
    /\ Has(task, "estimated_hours") /\ task["estimated_hours"].kind = "num"
    /\ task["estimated_hours"].v >= 1
    /\ Has(task, "importance") /\ task["importance"].kind = "num"
    /\ task["importance"].v >= 1 /\ task["importance"].v <= 10

\* serializer.is_valid() of TaskAnalyzeRequestSerializer
AnalyzeRequestValid(ts, strat) ==
    /\ \A k \in DOMAIN ts : TaskValid(ts[k])
    /\ strat \in Strategies

\* serializer.is_valid() of SuggestRequestSerializer: count in 1..10 as well
SuggestRequestValid(ts, strat, count) ==
    /\ AnalyzeRequestValid(ts, strat)
    /\ count >= 1 /\ count <= 10

\* validated_data['tasks']: "dependencies" defaults to the empty list
Validated(ts) ==
    [k \in DOMAIN ts |->
        IF Has(ts[k], "dependencies") THEN ts[k] ELSE ("dependencies" :> <<>>) @@ ts[k]]

\* a Response: its status, its error, whether the scorer was called, its tasks
Response(status, error, scorer, body) ==
    [status |-> status, error |-> error, scorer |-> scorer, body |-> body]

\* a view that hands every valid request to the scorer, the empty list included
RespondUnchecked(valid, validated, r, failure) ==
    IF ~valid THEN Response(400, "Invalid input", FALSE, <<>>)
    ELSE IF r.raised THEN Response(500, failure, TRUE, <<>>)
    ELSE Response(200, "", TRUE, r.value)

\* the body of both views after the serializer: r is the scorer's call, failure
\* the error of the view's except branch
Respond(valid, validated, r, failure) ==
    IF ~valid THEN Response(400, "Invalid input", FALSE, <<>>)
    ELSE IF validated = <<>> THEN Response(400, "No tasks provided", FALSE, <<>>)
    ELSE IF r.raised THEN Response(500, failure, TRUE, <<>>)
    ELSE Response(200, "", TRUE, r.value)

\* analyze_tasks(request)
AnalyzeTasksView(ts, strat, now) ==
    Respond(AnalyzeRequestValid(ts, strat), Validated(ts),
            ScoreTasksCall(Validated(ts), strat, now), "Error processing tasks")

\* suggest_tasks(request)
SuggestTasksView(ts, strat, count, now) ==
    Respond(SuggestRequestValid(ts, strat, count), Validated(ts),
            GetTopSuggestionsCall(Validated(ts), count, strat, now),
            "Error generating suggestions")

-----------------------------------------------------------------------------
(* The effort specification: one call of calculate_effort_score *)

HourGrid == (0 - 5)..MaxHours

InitEffort ==
    /\ tasks = <<>>
    /\ supplied = tasks
    /\ strategy = "smart_balance"
    /\ today = 0
    /\ arg \in {Num(h) : h \in HourGrid} \cup {None, BadStr}
    /\ op = "init"
    /\ ret = [raised |-> FALSE, value |-> {}]

CalculateEffort ==
    /\ op = "init"
    /\ op' = "calculate_effort_score"
    /\ ret' = [raised |-> FALSE, value |-> CalculateEffortScore(arg)]
    /\ UNCHANGED <<tasks, supplied, strategy, today, arg>>

NextEffort == CalculateEffort

SpecEffort == InitEffort /\ [][NextEffort]_vars

-----------------------------------------------------------------------------
(* The urgency specification: one call of calculate_urgency_score; today is *)
(* day 0, so the day number of a due date is its days until due             *)

\* every day from MaxOverdue days ago to MaxDays ahead, and days around the floor
DayGrid ==
    ((0 - MaxOverdue)..MaxDays)
        \cup {FloorDays - 500, FloorDays - 1, FloorDays, FloorDays + 1, 3 * FloorDays}

InitUrgency ==
    /\ tasks = <<>>
    /\ supplied = tasks
    /\ strategy = "smart_balance"
    /\ today = 0
    /\ arg \in {Date(d) : d \in DayGrid} \cup {None, BadStr}
    /\ op = "init"
    /\ ret = [raised |-> FALSE, value |-> {}]

CalculateUrgency ==
    /\ op = "init"
    /\ op' = "calculate_urgency_score"
    /\ ret' = [raised |-> FALSE, value |-> CalculateUrgencyScore(arg, today)]
    /\ UNCHANGED <<tasks, supplied, strategy, today, arg>>

NextUrgency == CalculateUrgency

SpecUrgency == InitUrgency /\ [][NextUrgency]_vars

-----------------------------------------------------------------------------
(* The score specification: one task with any field values, a number of   *)
(* tasks that depend on it, and one call of calculate_score or            *)
(* calculate_dependency_score                                             *)

DueValues == {None, BadStr} \cup {Date(d) : d \in {0 - 3, 0, 2, 5, 20, 2000}}
HourValues == {None} \cup {Num(h) : h \in {0 - 10, 0, 1, 20, 100, 310, 470}}
ImportanceValues == {None} \cup {Num(i) : i \in {0, 1, 5, 10, 11}}

\* every way of giving a task the field key: absent, or one of values
Field(key, values) == {<<>>} \cup {key :> v : v \in values}

\* the scored task: id 1 or no id, depending on itself or on nothing
Subjects ==
    {i @@ d @@ due @@ h @@ imp :
        i \in Field("id", {1}),
        d \in Field("dependencies", {<<>>, <<1>>}),
        due \in Field("due_date", DueValues),
        h \in Field("estimated_hours", HourValues),
        imp \in Field("importance", ImportanceValues)}

\* n tasks that depend on task 1
Dependents(n) == [k \in 1..n |-> [id |-> k + 1, dependencies |-> <<1>>]]

InitScore ==
    /\ \E s \in Subjects, n \in 0..MaxDependents : tasks = <<s>> \o Dependents(n)
    /\ supplied = tasks
    /\ strategy \in Strategies \cup {"unknown"}
    /\ today = 0
    /\ arg = 0
    /\ op = "init"
    /\ ret = [raised |-> FALSE, value |-> {}]

\* calculate_score(tasks[0], tasks)
CalculateScoreOfFirst ==
    /\ op = "init"
    /\ tasks # <<>>
    /\ op' = "calculate_score"
    /\ ret' = CalculateScoreCall(tasks[1], tasks, strategy, today)
    /\ UNCHANGED <<tasks, supplied, strategy, today, arg>>

\* calculate_dependency_score(task_id, tasks) for the id of a task of the batch
DependencyScoreOfTask ==
    /\ op = "init"
    /\ \E k \in DOMAIN tasks :
          /\ Has(tasks[k], "id")
          /\ arg' = tasks[k]["id"]
          /\ ret' = [raised |-> FALSE,
                     value |-> CalculateDependencyScore(tasks[k]["id"], tasks)]
    /\ op' = "calculate_dependency_score"
    /\ UNCHANGED <<tasks, supplied, strategy, today>>

NextScore == CalculateScoreOfFirst \/ DependencyScoreOfTask

SpecScore == InitScore /\ [][NextScore]_vars

-----------------------------------------------------------------------------
(* The batch specification: a batch, then score_tasks or get_top_suggestions *)

Urgent == [due_date |-> Date(0), estimated_hours |-> Num(10), importance |-> Num(8)]
Relaxed == [due_date |-> Date(20), estimated_hours |-> Num(100), importance |-> Num(3)]

\* the tasks of a batch but for the title: with id 1 or none, depending on
\* nothing, on task 0 or on task 1
BatchTasks ==
    {i @@ d @@ f :
        i \in Field("id", {1}),
        d \in Field("dependencies", {<<0>>, <<1>>}),
        f \in {Urgent, Relaxed}}

\* the batches of n tasks; every task carries its position as its title
Batches(n) == {[k \in 1..n |-> ("title" :> k) @@ b[k]] : b \in [1..n -> BatchTasks]}

InitBatch ==
    /\ \E n \in 0..MaxBatch : tasks \in Batches(n)
    /\ supplied = tasks
    /\ strategy = "smart_balance"
    /\ today = 0
    /\ arg = 0
    /\ op = "init"
    /\ ret = [raised |-> FALSE, value |-> {}]

ScoreTasks ==
    /\ op = "init"
    /\ op' = "score_tasks"
    /\ \E r \in {ScoreTasksCall(tasks, strategy, today)} :
          /\ tasks' = r.tasks
          /\ ret' = [raised |-> r.raised, value |-> r.value]
    /\ UNCHANGED <<supplied, strategy, today, arg>>

GetTopSuggestions ==
    /\ op = "init"
    /\ op' = "get_top_suggestions"
    /\ \E count \in (0 - 1)..MaxCount :
          /\ arg' = count
          /\ \E r \in {GetTopSuggestionsCall(tasks, count, strategy, today)} :
                /\ tasks' = r.tasks
                /\ ret' = [raised |-> r.raised, value |-> r.value]
    /\ UNCHANGED <<supplied, strategy, today>>

NextBatch == ScoreTasks \/ GetTopSuggestions

SpecBatch == InitBatch /\ [][NextBatch]_vars

-----------------------------------------------------------------------------
(* The field specification: one task, each of whose fields is absent,      *)
(* well-formed or malformed, and one call of calculate_score or score_tasks *)

\* the task: each field absent, well-formed, or malformed (None, a string
\* that is no date or no number, a number out of range)
FieldSubjects ==
    {i @@ d @@ due @@ h @@ imp :
        i \in Field("id", {1}),
        d \in Field("dependencies", {<<>>, <<1>>, NotAList}),
        due \in Field("due_date", {Date(2), BadStr, None}),
        h \in Field("estimated_hours", {Num(20), Num(0 - 10), BadStr}),
        imp \in Field("importance", {Num(5), Num(11), BadStr})}

InitFields ==
    /\ \E s \in FieldSubjects : tasks = <<s>>
    /\ supplied = tasks
    /\ strategy = "smart_balance"
    /\ today = 0
    /\ arg = 0
    /\ op = "init"
    /\ ret = [raised |-> FALSE, value |-> {}]

NextFields == CalculateScoreOfFirst \/ ScoreTasks

SpecFields == InitFields /\ [][NextFields]_vars

-----------------------------------------------------------------------------
(* The view specification: a request, then analyze_tasks or suggest_tasks, *)
(* or the scorer called on the request's tasks directly                    *)

\* the tasks of a request: valid ones, with id 1 or none, depending on task 0
\* or on nothing, and one of importance 11, which the serializer rejects
RequestTasks ==
    {i @@ d @@ Urgent : i \in Field("id", {1}), d \in Field("dependencies", {<<0>>})}
        \cup {[Urgent EXCEPT !.importance = Num(11)]}

Requests(n) == {[k \in 1..n |-> ("title" :> k) @@ b[k]] : b \in [1..n -> RequestTasks]}

InitViews ==
    /\ \E n \in 0..MaxRequest : tasks \in Requests(n)
    /\ supplied = tasks
    /\ strategy \in Strategies \cup {"unknown"}
    /\ today = 0
    /\ arg = 0
    /\ op = "init"
    /\ ret = [raised |-> FALSE, value |-> {}]

AnalyzeTasks ==
    /\ op = "init"
    /\ op' = "analyze_tasks"
    /\ ret' = [raised |-> FALSE, value |-> AnalyzeTasksView(tasks, strategy, today)]
    /\ UNCHANGED <<tasks, supplied, strategy, today, arg>>

SuggestTasks ==
    /\ op = "init"
    /\ op' = "suggest_tasks"
    /\ \E count \in 0..MaxCount :
          /\ arg' = count
          /\ ret' = [raised |-> FALSE,
                     value |-> SuggestTasksView(tasks, strategy, count, today)]
    /\ UNCHANGED <<tasks, supplied, strategy, today>>

NextViews == AnalyzeTasks \/ SuggestTasks \/ ScoreTasks \/ GetTopSuggestions

SpecViews == InitViews /\ [][NextViews]_vars

-----------------------------------------------------------------------------
(* The clock specification: one call of calculate_score in its two reads of *)
(* date.today(), line 72 in calculate_urgency_score and line 255 in         *)
(* _generate_explanation, with the date changing at any moment              *)

ClockTasks == {[due_date |-> due] : due \in {None, BadStr} \cup {Date(d) : d \in (0 - 2)..MaxDue}}

InitClock ==
    /\ \E t \in ClockTasks : tasks = <<t>>
    /\ supplied = tasks
    /\ strategy = "smart_balance"
    /\ today = 0
    /\ arg = 0
    /\ op = "init"
    /\ ret = [raised |-> FALSE, value |-> {}]

\* midnight passes
Tick ==
    /\ today < MaxTicks
    /\ today' = today + 1
    /\ UNCHANGED <<tasks, supplied, strategy, arg, op, ret>>

\* calculate_score up to line 212: the urgency score, from today as read at line 72
ReadUrgency ==
    /\ op = "init"
    /\ op' = "urgency_computed"
    /\ arg' = [urgency |-> CalculateUrgencyScore(Get(tasks[1], "due_date", None), today),
               today |-> today]
    /\ UNCHANGED <<tasks, supplied, strategy, today, ret>>

\* calculate_score from line 213 on: the other components, the total and the
\* explanation, from today as read at line 255
Explain ==
    /\ op = "urgency_computed"
    /\ op' = "calculate_score"
    /\ ret' = [raised |-> FALSE,
               value |-> CalculateScoreFrom(tasks[1], tasks, strategy, arg.urgency, today)]
    /\ UNCHANGED <<tasks, supplied, strategy, today, arg>>

NextClock == Tick \/ ReadUrgency \/ Explain

SpecClock == InitClock /\ [][NextClock]_vars

-----------------------------------------------------------------------------
(* The impact specification: a task of importance 10 and a task of         *)
(* importance 3, in either order, each with any due date, any hours and a  *)
(* number of tasks that depend on it, scored by score_tasks under          *)
(* high_impact                                                             *)

\* the tasks of the given id and importance: overdue, due today, due in years
\* or without a valid date; 0.1, 10 or 47 hours or without valid hours
ImpactTasks(id, importance) ==
    {[id |-> id, importance |-> Num(importance)] @@ due @@ h :
        due \in Field("due_date", {Date(0 - 3), Date(0), Date(2000)}),
        h \in Field("estimated_hours", {Num(1), Num(100), Num(470)})}

\* n tasks with the ids after first that depend on task id
DependentsOn(id, first, n) == [k \in 1..n |-> [id |-> first + k, dependencies |-> <<id>>]]

InitImpact ==
    /\ \E a \in ImpactTasks(1, 10), b \in ImpactTasks(2, 3), na, nb \in 0..MaxBlocked :
          \E pair \in {<<a, b>>, <<b, a>>} :
             tasks = pair \o DependentsOn(1, 2, na) \o DependentsOn(2, 2 + na, nb)
    /\ supplied = tasks
    /\ strategy = "high_impact"
    /\ today = 0
    /\ arg = 0
    /\ op = "init"
    /\ ret = [raised |-> FALSE, value |-> {}]

NextImpact == ScoreTasks

SpecImpact == InitImpact /\ [][NextImpact]_vars

-----------------------------------------------------------------------------
(* Every operation, from every batch *)

Init == InitGraph \/ InitEffort \/ InitUrgency \/ InitScore \/ InitBatch \/ InitFields \/ InitViews \/ InitClock \/ InitImpact

Next == NextGraph \/ NextEffort \/ NextUrgency \/ NextScore \/ NextBatch \/ NextViews \/ NextClock

Spec == Init /\ [][Next]_vars

-----------------------------------------------------------------------------
(* Claims about batch scoring (specification SpecBatch) *)

BatchCalled == op \in {"score_tasks", "get_top_suggestions"}

\* C4: score_tasks and get_top_suggestions never mutate the caller's task
\* records: after the call every input record has the fields and values it had
\* before it.
C4_InputsNotMutated == BatchCalled => tasks = supplied

\* C5: the list score_tasks returns holds every scored task once, in descending
\* order of priority_score, and tasks of equal priority_score keep their input
\* order (the title of a task is its input position).
C5_StableDescendingSort ==
    (op = "score_tasks" /\ ~ret.raised) =>
        /\ Len(ret.value) = Len(supplied)
        /\ {ret.value[i]["title"] : i \in DOMAIN ret.value} = DOMAIN supplied
        /\ \A i, j \in DOMAIN ret.value :
              i < j =>
                 /\ ret.value[i]["priority_score"] >= ret.value[j]["priority_score"]
                 /\ ret.value[i]["priority_score"] = ret.value[j]["priority_score"]
                       => ret.value[i]["title"] < ret.value[j]["title"]

\* a batch of three whose last task is sorted to the front of two tied tasks
C5_Witness ==
    /\ op = "score_tasks"
    /\ ~ret.raised
    /\ Len(ret.value) = 3
    /\ ret.value[1]["title"] = 3
    /\ ret.value[1]["priority_score"] > ret.value[2]["priority_score"]
    /\ ret.value[2]["priority_score"] = ret.value[3]["priority_score"]

-----------------------------------------------------------------------------
(* Claims about the scores (specification SpecScore) *)

\* the dependency weight the specification gives for b blocked tasks
DependencyWeight(b) ==
    IF b = 0 THEN 30 * Scale
    ELSE IF b = 1 THEN 60 * Scale
    ELSE IF b = 2 THEN 80 * Scale
    ELSE Min(100 * Scale, 80 * Scale + 10 * (b - 2) * Scale)

\* the tasks other than task_id whose dependency list holds task_id
OtherDependents(task_id, ts) ==
    {k \in DOMAIN ts : Get(ts[k], "id", NoneId) # task_id
                       /\ task_id \in Range(Dependencies(ts[k]))}

\* C8: the dependency weight of a task is DependencyWeight(b) for b the number
\* of OTHER tasks of the batch whose dependency list holds the task's id; a
\* task that lists its own id does not count.
C8_CountsOtherTasksOnly ==
    op = "calculate_dependency_score" =>
        ret.value = DependencyWeight(Cardinality(OtherDependents(arg, supplied)))

InRange(x) == 0 <= x /\ x <= 100 * Scale

\* C9: for the four strategies and for an unknown strategy name, whatever the
\* task's field values and however many tasks depend on it, each of the four
\* component scores and the combined score lie in [0, 100].
C9_ScoresInRange ==
    op = "calculate_score" =>
        /\ InRange(ret.value.components.urgency)
        /\ InRange(ret.value.components.importance)
        /\ InRange(ret.value.components.effort)
        /\ InRange(ret.value.components.dependencies)
        /\ InRange(ret.value.score)

\* an overdue task of importance 10 and 0.1 hours that more than four tasks
\* depend on, scored under an unknown strategy name: 99.9
C9_Witness ==
    /\ op = "calculate_score"
    /\ strategy \notin Strategies
    /\ BlockingCount(1, tasks) > 4
    /\ ret.value.components.dependencies = 100 * Scale
    /\ ret.value.components.urgency = 100 * Scale
    /\ ret.value.score = 9990

-----------------------------------------------------------------------------
(* Claims about the effort score (specification SpecEffort); hours are the  *)
(* multiples of 0.1 up to MaxHours                                          *)

EffortCalled == op = "calculate_effort_score" /\ arg.kind = "num"

Effort(h) == CalculateEffortScore(Num(h))

\* C10 as claimed: the effort score is strictly decreasing over all positive
\* hours, and is 50 for hours <= 0.
C10_StrictlyDecreasing ==
    EffortCalled =>
        /\ arg.v <= 0 => ret.value = 50 * Scale
        /\ arg.v > 0 => \A h2 \in HourGrid : arg.v < h2 => ret.value > Effort(h2)

\* C10 as amended: the effort score is non-increasing over all positive hours
\* and strictly decreasing up to 31 hours; from 31 hours on it is the floor 10;
\* it is 50 for hours <= 0.
C10_DecreasingToFloor ==
    EffortCalled =>
        /\ arg.v <= 0 => ret.value = 50 * Scale
        /\ arg.v >= FloorHours => ret.value = 10 * Scale
        /\ arg.v > 0 =>
              \A h2 \in HourGrid :
                 arg.v < h2 =>
                    /\ ret.value >= Effort(h2)
                    /\ h2 <= FloorHours => ret.value > Effort(h2)

\* 47 hours score the floor, as 31 hours do
C10_Witness ==
    /\ EffortCalled
    /\ arg.v = 470
    /\ ret.value = 10 * Scale
    /\ Effort(FloorHours) = ret.value
    /\ Effort(FloorHours - 1) > ret.value

-----------------------------------------------------------------------------
(* Claims about the urgency score (specification SpecUrgency) *)

UrgencyCalled == op = "calculate_urgency_score" /\ arg.kind = "date"

Urgency(d) == CalculateUrgencyScore(Date(d), today)

\* C11: for valid due dates the urgency score is non-increasing in the days
\* until due: every overdue date scores 100, a date due today scores 95, and
\* a date never scores less than a later one, across the boundaries at 3, 7,
\* 14 and 30 days and down to the floor of 10.
C11_UrgencyNonIncreasing ==
    UrgencyCalled =>
        /\ arg.v < today => ret.value = 100 * Scale
        /\ arg.v = today => ret.value = 95 * Scale
        /\ ret.value >= 10 * Scale
        /\ \A d2 \in DayGrid : arg.v < d2 => ret.value >= Urgency(d2)

\* the first date that scores the floor: earlier days score more, later days
\* score the same
C11_Witness ==
    /\ UrgencyCalled
    /\ arg.v = FloorDays
    /\ ret.value = 10 * Scale
    /\ Urgency(FloorDays - 500) > ret.value
    /\ Urgency(3 * FloorDays) = ret.value
    /\ Urgency(30) > Urgency(31)

-----------------------------------------------------------------------------
(* Claims about the suggestions (specification SpecBatch) *)

\* ret.value is the first Min(arg, Len(scored)) entries of scored, the i-th
\* with rank i and the reason "Rank #i: " and its explanation
RankedPrefixOf(scored) ==
    /\ Len(ret.value) = Min(arg, Len(scored))
    /\ \A i \in DOMAIN ret.value :
          /\ DOMAIN ret.value[i] = DOMAIN scored[i] \cup {"rank", "suggestion_reason"}
          /\ \A key \in DOMAIN scored[i] : ret.value[i][key] = scored[i][key]
          /\ ret.value[i]["rank"] = i
          /\ ret.value[i]["suggestion_reason"]
                = [rank |-> i, explanation |-> scored[i]["explanation"]]
          /\ i > 1 => ret.value[i - 1]["priority_score"] >= ret.value[i]["priority_score"]

\* C12: for every batch and every count N >= 0, get_top_suggestions returns
\* the first min(N, number of tasks) entries of the order score_tasks gives;
\* the i-th entry carries rank i and the reason "Rank #i: " followed by its
\* explanation, so ranks are consecutive from 1 and scores do not increase.
C12_TopSuggestions ==
    (op = "get_top_suggestions" /\ arg >= 0) =>
        /\ ~ret.raised
        /\ \A r \in {ScoreTasksCall(supplied, strategy, today)} : RankedPrefixOf(r.value)

\* the same for the calls that return
C12_WhenReturned ==
    (op = "get_top_suggestions" /\ arg >= 0 /\ ~ret.raised) =>
        \A r \in {ScoreTasksCall(supplied, strategy, today)} : RankedPrefixOf(r.value)

-----------------------------------------------------------------------------
(* Claims about malformed fields (specification SpecFields) *)

\* C13: scoring never raises because of a field value: whether each of
\* due_date, estimated_hours, importance and dependencies is absent,
\* well-formed or malformed, calculate_score and score_tasks return a score
\* record for the task.
C13_NeverRaisesOnFields ==
    op \in {"calculate_score", "score_tasks"} =>
        /\ ~ret.raised
        /\ op = "calculate_score" => InRange(ret.value.score)
        /\ op = "score_tasks" =>
              Len(ret.value) = 1 /\ InRange(ret.value[1]["priority_score"])

\* the same for the tasks whose "dependencies" is absent or a list
C13_ListsNeverRaise ==
    (op \in {"calculate_score", "score_tasks"} /\ ~DependencyScoreRaises(supplied)) =>
        /\ ~ret.raised
        /\ op = "calculate_score" => InRange(ret.value.score)
        /\ op = "score_tasks" =>
              Len(ret.value) = 1 /\ InRange(ret.value[1]["priority_score"])

-----------------------------------------------------------------------------
(* Claims about the strategies (specification SpecImpact) *)

ImportanceOf(task) == Get(task, "importance", Num(5)).v

\* C14: under high_impact, score_tasks ranks a task of importance 10 above a
\* task of importance 3 whatever their due dates, estimated hours and numbers
\* of dependents.
C14_HighImpactRanksImportance ==
    (op = "score_tasks" /\ strategy = "high_impact") =>
        /\ ~ret.raised
        /\ \A i, j \in DOMAIN ret.value :
              (ImportanceOf(ret.value[i]) = 10 /\ ImportanceOf(ret.value[j]) = 3)
                 => /\ i < j
                    /\ ret.value[i]["priority_score"] > ret.value[j]["priority_score"]

\* the importance-10 task comes second in the input, is due in years, costs
\* 47 hours and blocks nothing; the importance-3 task is overdue, costs 0.1
\* hours and blocks MaxBlocked tasks
C14_Witness ==
    /\ op = "score_tasks"
    /\ strategy = "high_impact"
    /\ ~ret.raised
    /\ ImportanceOf(supplied[1]) = 3
    /\ supplied[1] = [id |-> 2, importance |-> Num(3), due_date |-> Date(0 - 3),
                      estimated_hours |-> Num(1)]
    /\ supplied[2] = [id |-> 1, importance |-> Num(10), due_date |-> Date(2000),
                      estimated_hours |-> Num(470)]
    /\ BlockingCount(2, supplied) = MaxBlocked
    /\ BlockingCount(1, supplied) = 0
    /\ \E i, j \in DOMAIN ret.value :
          /\ i < j
          /\ ret.value[i]["id"] = 1
          /\ ret.value[j]["id"] = 2
          /\ ret.value[j]["score_components"].urgency
                > ret.value[i]["score_components"].urgency
          /\ ret.value[j]["score_components"].effort
                > ret.value[i]["score_components"].effort
          /\ ret.value[j]["score_components"].dependencies
                > ret.value[i]["score_components"].dependencies

-----------------------------------------------------------------------------
(* Claims about the views (specification SpecViews) *)

ViewCalled == op \in {"analyze_tasks", "suggest_tasks"}

\* the scorer, given an empty batch, returns an empty sequence without raising
EmptyBatchScored ==
    (op \in {"score_tasks", "get_top_suggestions"} /\ supplied = <<>>) =>
        ~ret.raised /\ ret.value = <<>>

\* C15 as claimed: analyze and suggest called with an empty task list answer
\* "No tasks provided" and never call the scorer; the scorer, given an empty
\* batch, returns an empty sequence without raising.
C15_EmptyListRejected ==
    /\ (ViewCalled /\ supplied = <<>>) =>
          /\ ret.value.status = 400
          /\ ret.value.error = "No tasks provided"
          /\ ~ret.value.scorer
    /\ EmptyBatchScored

\* the request passes the serializer but for its task list
OtherwiseValid ==
    /\ strategy \in Strategies
    /\ op = "suggest_tasks" => (arg >= 1 /\ arg <= 10)

\* C15 as amended: analyze and suggest called with an empty task list answer
\* with a client-input error and never call the scorer; the error is "No
\* tasks provided" when the strategy (and for suggest the count) is valid,
\* and "Invalid input" otherwise; the scorer, given an empty batch, returns
\* an empty sequence without raising.
C15_EmptyListRejectedWhenValid ==
    /\ (ViewCalled /\ supplied = <<>>) =>
          /\ ret.value.status = 400
          /\ ~ret.value.scorer
          /\ ret.value.error
                = IF OtherwiseValid THEN "No tasks provided" ELSE "Invalid input"
    /\ EmptyBatchScored

\* suggest answers an empty list and a valid count with "No tasks provided"
C15_Witness ==
    /\ op = "suggest_tasks"
    /\ supplied = <<>>
    /\ OtherwiseValid
    /\ ret.value = Response(400, "No tasks provided", FALSE, <<>>)

-----------------------------------------------------------------------------
(* Claims about the explanation (specification SpecScore) *)

\* the category of a phrase: 1 urgency, 2 importance, 3 effort, 4 dependencies,
\* 0 for "Balanced priority"
Category(text) ==
    CASE text \in {"OVERDUE by N days", "Due TODAY", "Due very soon (N days)",
                   "High urgency", "Approaching deadline"} -> 1
      [] text = "High importance rating" -> 2
      [] text \in {"Quick win (low effort)", "High effort task"} -> 3
      [] text = "Blocks other tasks" -> 4
      [] OTHER -> 0

\* the categories whose check fires, given the components and the strategy
Fired(c, strat) ==
    {k \in 1..4 :
        \/ k = 1 /\ c.urgency > 60 * Scale
        \/ k = 2 /\ c.importance > 75 * Scale
        \/ k = 3 /\ (c.effort > 80 * Scale
                        \/ (c.effort < 30 * Scale /\ strat # "fastest_wins"))
        \/ k = 4 /\ c.dependencies > 60 * Scale}

Balanced == <<Phrase("Balanced priority")>>

\* C16: the explanation of a scored task is never empty; it is exactly
\* "Balanced priority" if and only if no category check fires (urgency <= 60,
\* importance <= 75, effort <= 80 and (effort >= 30 or the strategy is
\* fastest_wins), dependencies <= 60); otherwise it does not hold "Balanced
\* priority" and lists one phrase per fired category in the order urgency,
\* importance, effort, dependencies.
C16_ExplanationOfChecks ==
    (op = "calculate_score" /\ ~ret.raised) =>
        \A e \in {ret.value.explanation}, c \in {ret.value.components} :
            /\ e # <<>>
            /\ e = Balanced
                  <=> /\ c.urgency <= 60 * Scale
                      /\ c.importance <= 75 * Scale
                      /\ c.effort <= 80 * Scale
                      /\ c.effort >= 30 * Scale \/ strategy = "fastest_wins"
                      /\ c.dependencies <= 60 * Scale
            /\ e # Balanced =>
                  /\ \A k \in DOMAIN e : Category(e[k].text) # 0
                  /\ {Category(e[k].text) : k \in DOMAIN e} = Fired(c, strategy)
                  /\ \A k \in DOMAIN e : k > 1 => Category(e[k - 1].text) < Category(e[k].text)

\* a task of 31 hours or more under fastest_wins, with nothing else to say
C16_Witness ==
    /\ op = "calculate_score"
    /\ ~ret.raised
    /\ strategy = "fastest_wins"
    /\ ret.value.components.effort < 30 * Scale
    /\ ret.value.explanation = Balanced

\* all four categories fire
C16_WitnessAllFired ==
    /\ op = "calculate_score"
    /\ ~ret.raised
    /\ Len(ret.value.explanation) = 4
    /\ ret.value.explanation[4] = Phrase("Blocks other tasks")

-----------------------------------------------------------------------------
(* Claims about the identifiers (specification SpecBatch) *)

\* the ids the caller supplied are pairwise distinct
ExplicitIdsDistinct(ts) ==
    \A i, j \in DOMAIN ts :
        (i # j /\ Has(ts[i], "id") /\ Has(ts[j], "id")) => ts[i]["id"] # ts[j]["id"]

\* C17: after score_tasks has given the tasks without an id their position,
\* all ids of the batch are pairwise distinct whenever the ids the caller
\* supplied were: a positional id never equals another task's explicit id.
C17_IdsDistinctAfterAssignment ==
    (BatchCalled /\ ExplicitIdsDistinct(supplied)) =>
        /\ \A k \in DOMAIN tasks : Has(tasks[k], "id")
        /\ \A i, j \in DOMAIN tasks : i # j => tasks[i]["id"] # tasks[j]["id"]

-----------------------------------------------------------------------------
(* Claims about the two reads of the date (specification SpecClock) *)

\* every urgency phrase of the explanation agrees with the urgency component
PhraseAgrees ==
    \A k \in DOMAIN ret.value.explanation :
        \A p \in {ret.value.explanation[k]}, u \in {ret.value.components.urgency} :
            /\ p.text = "OVERDUE by N days" => u = 100 * Scale
            /\ p.text = "Due TODAY" => u = 95 * Scale
            /\ p.text = "Due very soon (N days)" =>
                  (p.n >= 1 /\ p.n <= 3 /\ u = (90 - 3 * p.n) * Scale)

\* C18: within one scoring call the urgency phrase of the explanation agrees
\* with the urgency component, whenever the date changes between the read of
\* the date for the urgency score and the read for the explanation:
\* "OVERDUE by N days" only with urgency 100, "Due TODAY" only with 95, "Due
\* very soon (N days)" only with N in 1..3 and urgency 90 - 3N.
C18_PhraseAgreesWithUrgency ==
    (op = "calculate_score" /\ ~ret.raised) => PhraseAgrees

\* the same for the calls during which the date has not changed
C18_AgreesWithinOneDay ==
    (op = "calculate_score" /\ ~ret.raised /\ arg.today = today) => PhraseAgrees

=============================================================================
